---- MODULE Spec2Model ----
(***************************************************************************)
(* A model of go-runtime-metrics: the push path of runstats.go             *)
(* (RunCollector, runStats.onNewPoint, runStats.loop) and the periodic     *)
(* sampler of collector/collector.go (Collector.Run).                      *)
(*                                                                         *)
(* The InfluxDB client is an opaque transport: every call on it (creating  *)
(* the client, Ping, Query, NewBatchPoints, Write) returns success or an   *)
(* error, chosen nondeterministically; Write is a call in two steps (the   *)
(* call, its return) so that a Write that never returns is a behaviour.    *)
(* Channels are modelled by what Go gives them: r.pc is unbuffered (a send *)
(* completes only in a rendezvous with the loop's receive), a ticker's     *)
(* channel holds at most one tick and drops the ticks that find it full.   *)
(***************************************************************************)
EXTENDS Integers, Sequences, FiniteSets, TLC

\* The sampler's ticker fires at most MaxTicks times.
MaxTicks == 4

VARIABLES
    logger,       \* config.Logger: "exit" (DefaultLogger) or "return" (a Fatalln that returns)
    alive,        \* FALSE once log.Fatalln has ended the process
    rcPc,         \* RunCollector's position
    rcRet,        \* RunCollector's result: "none" (not returned), "nil", "err"
    clientRes,    \* result of creating the client: "none", "ok", "err"
    pingRes,      \* result of Ping: "none", "ok", "err"
    queryRes,     \* result of the CREATE DATABASE query: "none", "ok", "transportErr", "responseErr"
    points,       \* r.points: the batch reference (NilBatch when nil)
    batches,      \* number of batches NewBatchPoints has built (the last one's identity)
    loopPc,       \* runStats.loop: "notStarted", "select", "write" (inside client.Write)
    inflight,     \* the batch handed to the Write call in progress
    flushTickC,   \* the channel of time.Tick(interval): ticks buffered (0 or 1)
    fieldsFunc,   \* the Collector's callback: "none", "onNewPoint", "pointFunc"
    done,         \* Collector.Done: "nil", "open", "closed"
    runPc,        \* Collector.Run: "notStarted", "start", "callback", "select", "returned"
    tickerOn,     \* time.NewTicker(c.PauseDur) has been created
    tickC,        \* tick.C: ticks buffered (0 or 1)
    fired,        \* ticks the sampler's ticker has fired
    consumed,     \* ticks Run has received from tick.C
    invocations,  \* calls of fieldsFunc
    latestFields, \* what the test's callback has recorded
    appended,     \* history: every point AddPoint has been given, in order
    written,      \* history: the points of the batches a Write has accepted, in order
    tickLog,      \* history: outcomes of the flush ticks since the last received point (last two)
    enable,       \* the Collector's EnableCPU, EnableMem, EnableGC
    runtime,      \* the Go runtime's counters: [clock, numGC]
    callers,      \* the callers of OneOff and the readers of Metrics: each one's call
    measurement,  \* the name given to influxdb.Metrics
    config,       \* the Config that RunCollector's config points to
    lastLog,      \* the latest call of the logger: [level, msg]
    writeRes,     \* what the latest Write returned: "none", "ok", "err"
    lastOp,       \* the latest operation on the client: [op, worker]
    sendPt        \* onNewPoint's pt, which it sends on r.pc: "none", "point", "nil"

vars == << logger, alive, rcPc, rcRet, clientRes, pingRes, queryRes, points, batches,
           loopPc, inflight, flushTickC, fieldsFunc, done, runPc, tickerOn, tickC,
           fired, consumed, invocations, latestFields, appended, written, tickLog,
           enable, runtime, callers, measurement, config, lastLog, writeRes, lastOp, sendPt >>

bootVars == << rcPc, rcRet, clientRes, pingRes, queryRes >>
loopVars == << points, batches, loopPc, inflight, appended, written, tickLog >>
runVars  == << fieldsFunc, runPc, tickerOn, tickC, consumed, invocations, latestFields, sendPt >>
sampleVars == << enable, runtime, callers, measurement >>
traceVars == << lastLog, writeRes, lastOp >>

-----------------------------------------------------------------------------
(* Batches *)

\* r.points == nil
NilBatch == [id |-> 0, pts |-> << >>]

IsNil(b) == b.id = 0

\* client.NewBatchPoints: a new batch with no points
NewBatchPoints(n) == [id |-> n, pts |-> << >>]

\* AddPoint putting the point in front
AddPointInFront(b, pt) == [b EXCEPT !.pts = << pt >> \o @]

\* BatchPoints.AddPoint: append at the end
AddPoint(b, pt) == [b EXCEPT !.pts = Append(@, pt)]

\* The guard with the length test lost
NothingToFlushNilOnly(b) == IsNil(b)

\* The guard of the tick case: nothing to flush
NothingToFlush(b) == IsNil(b) \/ Len(b.pts) <= 0

\* The tick case dropping the batch whatever Write returned
BatchAfterWriteAlwaysDropped(b, writeErr, batchErr, n) ==
    IF batchErr THEN NilBatch ELSE NewBatchPoints(n)

\* The tick case never rotating the batch
BatchAfterWriteKept(b, writeErr, batchErr, n) == b

\* The tick case putting the written points into the new batch
BatchAfterWriteCarryingPoints(b, writeErr, batchErr, n) ==
    IF writeErr THEN b
    ELSE IF batchErr THEN NilBatch
    ELSE [id |-> n, pts |-> b.pts]

\* The tick case once Write has returned: on an error the loop continues with
\* the batch it has; otherwise r.points = nil, then the new batch if newBatch
\* built one.
BatchAfterWrite(b, writeErr, batchErr, n) ==
    IF writeErr THEN b
    ELSE IF batchErr THEN NilBatch
    ELSE NewBatchPoints(n)

\* The receive case without its test for nil
BatchAfterReceiveWithoutNilTest(b, pt) == AddPoint(b, pt)

\* The receive case: the point is added if a batch is in place
BatchAfterReceive(b, pt) == IF IsNil(b) THEN b ELSE AddPoint(b, pt)

\* The last two entries of a log
LastTwo(s) == IF Len(s) <= 2 THEN s ELSE SubSeq(s, Len(s) - 1, Len(s))

-----------------------------------------------------------------------------
(* Logger *)

\* DefaultLogger.Fatalln is log.Fatalln, which exits; a caller's may return
FatallnReturns == logger = "return"

-----------------------------------------------------------------------------
(* RunCollector *)

\* queryDB: the transport's error, or the error the response carries
QueryDBErr(res) == res \in {"transportErr", "responseErr"}

\* if err != nil { return errors.Wrap(err, "failed to create influxdb client") }
AfterNewClient(res) == IF res = "err" THEN "returned" ELSE "ping"

\* Ping's error ignored
AfterPingIgnored(res) == "query"

\* if _, _, err := clnt.Ping(5 * time.Second); err != nil { return ... }
AfterPing(res) == IF res = "err" THEN "returned" ELSE "query"

\* config.init, then client.NewUDPClient or client.NewHTTPClient (by config.UseUDP):
\* either returns a client or an error
NewClient ==
    /\ alive /\ rcPc = "newClient"
    /\ \E res \in {"ok", "err"} :
         /\ clientRes' = res
         /\ rcPc' = AfterNewClient(res)
         /\ rcRet' = IF AfterNewClient(res) = "returned" THEN "err" ELSE rcRet
    /\ lastOp' = [op |-> "connect", worker |-> "main"]
    /\ UNCHANGED << sampleVars, lastLog, writeRes, config, logger, alive, pingRes,
                    queryRes, loopVars, flushTickC, runVars,
                    done, fired >>

Ping ==
    /\ alive /\ rcPc = "ping"
    /\ \E res \in {"ok", "err"} :
         /\ pingRes' = res
         /\ rcPc' = AfterPing(res)
         /\ rcRet' = IF AfterPing(res) = "returned" THEN "err" ELSE rcRet
    /\ lastOp' = [op |-> "ping", worker |-> "main"]
    /\ UNCHANGED << sampleVars, lastLog, writeRes, config, logger, alive, clientRes,
                    queryRes, loopVars, flushTickC, runVars,
                    done, fired >>

\* queryDB(clnt, CREATE DATABASE); if err != nil { config.Logger.Fatalln(err) }
\* and RunCollector goes on to runStats.newBatch() when Fatalln returns.
CreateDatabase ==
    /\ alive /\ rcPc = "query"
    /\ \E res \in {"ok", "transportErr", "responseErr"} :
         /\ queryRes' = res
         /\ lastLog' = IF QueryDBErr(res) THEN [level |-> "Fatalln", msg |-> "query"] ELSE lastLog
         /\ IF QueryDBErr(res) /\ ~FatallnReturns
            THEN alive' = FALSE /\ rcPc' = rcPc
            ELSE alive' = alive /\ rcPc' = "newBatch"
    /\ lastOp' = [op |-> "query", worker |-> "main"]
    /\ UNCHANGED << sampleVars, writeRes, config, logger, rcRet, clientRes, pingRes,
                    loopVars, flushTickC, runVars,
                    done, fired >>

\* bp, err := runStats.newBatch(); if err != nil { return err }; runStats.points = bp
\* (newBatch itself calls Fatalln on the error)
NewBatch ==
    /\ alive /\ rcPc = "newBatch"
    /\ \E err \in BOOLEAN :
         IF err
         THEN /\ lastLog' = [level |-> "Fatalln", msg |-> "could not create BatchPoints"]
              /\ IF FatallnReturns
                 THEN alive' = alive /\ rcPc' = "returned" /\ rcRet' = "err"
                 ELSE alive' = FALSE /\ rcPc' = rcPc /\ rcRet' = rcRet
              /\ UNCHANGED << points, batches >>
         ELSE /\ points' = NewBatchPoints(batches + 1)
              /\ batches' = batches + 1
              /\ rcPc' = "goLoop"
              /\ UNCHANGED << alive, rcRet, lastLog >>
    /\ UNCHANGED << sampleVars, writeRes, lastOp, config, logger, clientRes, pingRes,
                    queryRes, loopPc, inflight, appended,
                    written, tickLog, flushTickC, runVars, done, fired >>

\* go runStats.loop(config.BatchInterval); the loop creates its ticker
StartLoop ==
    /\ alive /\ rcPc = "goLoop"
    /\ loopPc' = "select"
    /\ rcPc' = "goRun"
    /\ UNCHANGED << sampleVars, traceVars, config, logger, alive, rcRet, clientRes,
                    pingRes, queryRes, points, batches,
                    inflight, appended, written, tickLog, flushTickC, runVars, done,
                    fired >>

\* c := collector.New(runStats.onNewPoint); ...; go c.Run(); return nil
StartCollector ==
    /\ alive /\ rcPc = "goRun"
    /\ fieldsFunc' = "onNewPoint"
    /\ runPc' = "start"
    /\ rcPc' = "returned"
    /\ rcRet' = "nil"
    /\ UNCHANGED << sampleVars, traceVars, config, logger, alive, clientRes, pingRes,
                    queryRes, loopVars, flushTickC,
                    done, tickerOn, tickC, fired, consumed, invocations, latestFields, sendPt >>

-----------------------------------------------------------------------------
(* runStats.loop *)

\* The loop is at its select and can take a case
LoopAtSelect == loopPc = "select"

\* time.Tick(interval) delivers a tick; one that finds the channel full is dropped
FlushTimerFire ==
    /\ alive /\ loopPc # "notStarted"
    /\ flushTickC = 0
    /\ flushTickC' = 1
    /\ UNCHANGED << sampleVars, traceVars, config, logger, alive, bootVars, loopVars,
                    runVars, done, fired >>

\* case <-ticks: nothing to flush, or the call of r.client.Write(r.points)
Tick ==
    /\ alive /\ LoopAtSelect
    /\ flushTickC = 1
    /\ flushTickC' = 0
    /\ IF NothingToFlush(points)
       THEN /\ tickLog' = LastTwo(Append(tickLog, "noop"))
            /\ UNCHANGED << loopPc, inflight, lastOp >>
       ELSE /\ loopPc' = "write"
            /\ inflight' = points
            /\ lastOp' = [op |-> "write", worker |-> "loop"]
            /\ UNCHANGED tickLog
    /\ UNCHANGED << sampleVars, lastLog, writeRes, config, logger, alive, bootVars,
                    points, batches, appended, written,
                    runVars, done, fired >>

LogAfterWriteErrorPrinted(log, writeErr, batchErr) ==
    CASE writeErr -> [level |-> "Println", msg |-> "could not write points to InfluxDB"]
      [] batchErr -> [level |-> "Fatalln", msg |-> "could not create BatchPoints"]
      [] OTHER    -> log

\* The logger's latest call once the tick case is over: Fatalln with the
\* wrapped error of Write or of newBatch, or the call before when both succeed
LogAfterWrite(log, writeErr, batchErr) ==
    CASE writeErr -> [level |-> "Fatalln", msg |-> "could not write points to InfluxDB"]
      [] batchErr -> [level |-> "Fatalln", msg |-> "could not create BatchPoints"]
      [] OTHER    -> log

\* r.client.Write returns: on an error Fatalln and continue; otherwise
\* r.points = nil, newBatch (Fatalln on its error, continue), r.points = bp
WriteReturn ==
    /\ alive /\ loopPc = "write"
    /\ \E writeErr \in BOOLEAN, batchErr \in BOOLEAN :
         /\ writeErr => ~batchErr
         /\ writeRes' = IF writeErr THEN "err" ELSE "ok"
         /\ lastLog' = LogAfterWrite(lastLog, writeErr, batchErr)
         /\ IF (writeErr \/ batchErr) /\ ~FatallnReturns
            THEN /\ alive' = FALSE
                 /\ points' = IF writeErr THEN points ELSE NilBatch
                 /\ written' = IF writeErr THEN written ELSE written \o points.pts
                 /\ UNCHANGED << batches, loopPc, inflight, tickLog >>
            ELSE /\ points' = BatchAfterWrite(points, writeErr, batchErr, batches + 1)
                 /\ batches' = IF writeErr \/ batchErr THEN batches ELSE batches + 1
                 /\ loopPc' = "select"
                 /\ inflight' = NilBatch
                 /\ written' = IF writeErr THEN written ELSE written \o points.pts
                 /\ tickLog' = LastTwo(Append(tickLog, IF writeErr THEN "err" ELSE "ok"))
                 /\ UNCHANGED alive
    /\ UNCHANGED << sampleVars, lastOp, config, logger, bootVars, appended, flushTickC,
                    runVars, done, fired >>

\* onNewPoint adding the point to r.points itself, on the Sampler worker,
\* without the hand-off to the loop
OnNewPointDirect ==
    /\ alive /\ loopPc # "notStarted"
    /\ runPc = "callback" /\ fieldsFunc = "onNewPoint"
    /\ points' = BatchAfterReceive(points, invocations)
    /\ appended' = IF IsNil(points) THEN appended ELSE Append(appended, invocations)
    /\ tickLog' = << >>
    /\ runPc' = "select"
    /\ tickerOn' = TRUE
    /\ lastLog' = IF IsNil(points) THEN lastLog ELSE [level |-> "Println", msg |-> "point"]
    /\ sendPt' = "none"
    /\ UNCHANGED << sampleVars, writeRes, lastOp, config, logger, alive, bootVars,
                    batches, loopPc, inflight, written,
                    flushTickC, fieldsFunc, done, tickC, fired, consumed, invocations,
                    latestFields >>

\* onNewPoint writing its point to the client itself, on the Sampler worker
OnNewPointWriting ==
    /\ alive /\ LoopAtSelect
    /\ runPc = "callback" /\ fieldsFunc = "onNewPoint"
    /\ lastOp' = [op |-> "write", worker |-> "sampler"]
    /\ written' = Append(written, invocations)
    /\ runPc' = "select"
    /\ tickerOn' = TRUE
    /\ sendPt' = "none"
    /\ UNCHANGED << sampleVars, lastLog, writeRes, config, logger, alive, bootVars, points,
                    batches, loopPc, inflight, appended, tickLog, flushTickC, fieldsFunc, done,
                    tickC, fired, consumed, invocations, latestFields >>

\* r.pc <- pt in onNewPoint meets case pt := <-r.pc: the callback returns, and
\* the loop adds the point if a batch is in place, after logging it with
\* Println(pt.String()): on a nil pt that call panics and the process ends.
\* After its first callback Run creates its ticker. A point is the sample's
\* number.
Receive ==
    /\ alive /\ LoopAtSelect
    /\ runPc = "callback" /\ fieldsFunc = "onNewPoint"
    /\ IF sendPt = "nil" /\ ~IsNil(points)
       THEN /\ alive' = FALSE
            /\ UNCHANGED << points, appended, tickLog, runPc, tickerOn, lastLog, sendPt >>
       ELSE /\ points' = BatchAfterReceive(points, invocations)
            /\ appended' = IF IsNil(points) THEN appended ELSE Append(appended, invocations)
            /\ tickLog' = << >>
            /\ runPc' = "select"
            /\ tickerOn' = TRUE
            /\ lastLog' = IF IsNil(points) THEN lastLog
                          ELSE [level |-> "Println", msg |-> "point"]
            /\ sendPt' = "none"
            /\ alive' = alive
    /\ UNCHANGED << sampleVars, writeRes, lastOp, config, logger, bootVars,
                    batches, loopPc, inflight, written,
                    flushTickC, fieldsFunc, done, tickC, fired, consumed, invocations,
                    latestFields >>

-----------------------------------------------------------------------------
(* Collector.Run *)

\* onNewPoint up to its send: client.NewPoint builds the point or returns an
\* error with a nil point; on the error Fatalln, and when that returns the
\* function goes on with pt nil.  Another callback does none of this.
NewPointCalled ==
    IF fieldsFunc = "onNewPoint"
    THEN \E err \in BOOLEAN :
           /\ sendPt' = IF err THEN "nil" ELSE "point"
           /\ lastLog' = IF err THEN [level |-> "Fatalln", msg |-> "error while creating point"]
                         ELSE lastLog
           /\ alive' = IF err /\ ~FatallnReturns THEN FALSE ELSE alive
    ELSE UNCHANGED << sendPt, lastLog, alive >>

\* Run going to its ticker without the first call of the callback
RunStartWithoutCall ==
    /\ alive /\ runPc = "start"
    /\ runPc' = "select"
    /\ tickerOn' = TRUE
    /\ UNCHANGED << sampleVars, traceVars, config, logger, alive, bootVars, loopVars,
                    flushTickC, fieldsFunc, done,
                    tickC, fired, consumed, invocations, latestFields, sendPt >>

\* c.fieldsFunc(c.collectStats()) before the ticker is created
RunStart ==
    /\ alive /\ runPc = "start"
    /\ invocations' = invocations + 1
    /\ runPc' = "callback"
    /\ NewPointCalled
    /\ UNCHANGED << sampleVars, writeRes, lastOp, config, logger, bootVars, loopVars,
                    flushTickC, fieldsFunc, done,
                    tickerOn, tickC, fired, consumed, latestFields >>

\* The test's callback: latestFields = append(latestFields, fields), and it returns
CallbackReturn ==
    /\ alive /\ runPc = "callback" /\ fieldsFunc = "pointFunc"
    /\ latestFields' = Append(latestFields, invocations)
    /\ runPc' = "select"
    /\ tickerOn' = TRUE
    /\ UNCHANGED << sampleVars, traceVars, config, logger, alive, bootVars, loopVars,
                    flushTickC, fieldsFunc, done,
                    tickC, fired, consumed, invocations, sendPt >>

\* The ticker delivers a tick; one that finds tick.C full is dropped
TimerFire ==
    /\ alive /\ tickerOn /\ runPc # "returned"
    /\ fired < MaxTicks
    /\ fired' = fired + 1
    /\ tickC' = 1
    /\ UNCHANGED << sampleVars, traceVars, config, logger, alive, bootVars, loopVars,
                    flushTickC, fieldsFunc, done,
                    runPc, tickerOn, consumed, invocations, latestFields, sendPt >>

\* case <-tick.C: c.fieldsFunc(c.collectStats())
RunTick ==
    /\ alive /\ runPc = "select"
    /\ tickC = 1
    /\ tickC' = 0
    /\ consumed' = consumed + 1
    /\ invocations' = invocations + 1
    /\ runPc' = "callback"
    /\ NewPointCalled
    /\ UNCHANGED << sampleVars, writeRes, lastOp, config, logger, bootVars, loopVars,
                    flushTickC, fieldsFunc, done,
                    tickerOn, fired, latestFields >>

\* Run taking a nil Done for a closed one
RunDoneAlsoOnNil ==
    /\ alive /\ runPc = "select"
    /\ done \in {"closed", "nil"}
    /\ runPc' = "returned"
    /\ UNCHANGED << sampleVars, traceVars, config, logger, alive, bootVars, loopVars,
                    flushTickC, fieldsFunc, done,
                    tickerOn, tickC, fired, consumed, invocations, latestFields, sendPt >>

\* case <-c.Done: return (a receive from a nil channel is never ready)
RunDone ==
    /\ alive /\ runPc = "select"
    /\ done = "closed"
    /\ runPc' = "returned"
    /\ UNCHANGED << sampleVars, traceVars, config, logger, alive, bootVars, loopVars,
                    flushTickC, fieldsFunc, done,
                    tickerOn, tickC, fired, consumed, invocations, latestFields, sendPt >>

\* The test closes done
CloseDone ==
    /\ alive /\ done = "open"
    /\ done' = "closed"
    /\ UNCHANGED << sampleVars, traceVars, config, logger, alive, bootVars, loopVars,
                    flushTickC, runVars, fired >>

(***************************************************************************)
(* runstats.go: Config and Config.init                                     *)
(***************************************************************************)
defaultHttpAddr == "localhost:8086"

defaultUdpAddr == "localhost:8089"

defaultMeasurement == "go.runtime"

defaultDatabase == "stats"

\* the intervals are in seconds
defaultCollectionInterval == 10

defaultBatchInterval == 60

\* a nil *Config
NilConfig == [nil |-> TRUE]

\* &Config{}: every field at its zero value
DefaultConfig ==
    [Addr |-> "", Database |-> "", Username |-> "", Measurement |-> "",
     BatchInterval |-> 0, CollectionInterval |-> 0, Logger |-> "nil", UseUDP |-> FALSE]

\* os.Hostname(): a name, or an error
HostnameResults == {[name |-> "myhost", err |-> FALSE], [name |-> "", err |-> TRUE]}

ConfigInitAddrWithoutUDP(cfg, hn) ==
    LET c0 == IF cfg = NilConfig THEN DefaultConfig ELSE cfg
    IN  [c0 EXCEPT
           !.Database = IF @ = "" THEN defaultDatabase ELSE @,
           !.Addr = IF @ = "" THEN defaultHttpAddr ELSE @,
           !.Measurement = IF @ = ""
                           THEN IF hn.err THEN defaultMeasurement \o ".unknown"
                                          ELSE defaultMeasurement \o "." \o hn.name
                           ELSE @,
           !.CollectionInterval = IF @ = 0 THEN defaultCollectionInterval ELSE @,
           !.BatchInterval = IF @ = 0 THEN defaultBatchInterval ELSE @,
           !.Logger = IF @ = "nil" THEN "DefaultLogger" ELSE @]

\* Config.init: the configuration it returns (the error it returns is nil)
ConfigInit(cfg, hn) ==
    LET c0 == IF cfg = NilConfig THEN DefaultConfig ELSE cfg
    IN  [c0 EXCEPT
           !.Database = IF @ = "" THEN defaultDatabase ELSE @,
           !.Addr = IF @ = "" THEN (IF c0.UseUDP THEN defaultUdpAddr ELSE defaultHttpAddr) ELSE @,
           !.Measurement = IF @ = ""
                           THEN IF hn.err THEN defaultMeasurement \o ".unknown"
                                          ELSE defaultMeasurement \o "." \o hn.name
                           ELSE @,
           !.CollectionInterval = IF @ = 0 THEN defaultCollectionInterval ELSE @,
           !.BatchInterval = IF @ = 0 THEN defaultBatchInterval ELSE @,
           !.Logger = IF @ = "nil" THEN "DefaultLogger" ELSE @]

\* What config.Logger.Fatalln does: DefaultLogger's exits the process
FatallnOf(l) == IF l = "DefaultLogger" THEN "exit" ELSE "return"

\* RunCollector: config, err = config.init()
CallConfigInit ==
    /\ alive /\ rcPc = "init"
    /\ \E hn \in HostnameResults : config' = ConfigInit(config, hn)
    /\ logger' = FatallnOf(config'.Logger)
    /\ rcPc' = "newClient"
    /\ UNCHANGED << sampleVars, traceVars, alive, rcRet, clientRes, pingRes, queryRes,
                    loopVars,
                    flushTickC, runVars, done, fired >>

\* The resolved configuration of a run whose logger is given
ResolvedConfig(l) ==
    [ConfigInit(DefaultConfig, [name |-> "myhost", err |-> FALSE])
        EXCEPT !.Logger = IF l = "exit" THEN "DefaultLogger" ELSE "returning"]

(***************************************************************************)
(* collector.go: the Fields record and the sample that fills it.           *)
(***************************************************************************)
MaxClock == 2

\* A uint32 is kept as two 16-bit words, [hi, lo]: it is worth hi * 2^16 + lo.
Word == 2^16

U32(hi, lo) == [hi |-> hi, lo |-> lo]

\* n + k in uint32 arithmetic, for k below 2^16
AddU32(n, k) ==
    [hi |-> (n.hi + ((n.lo + k) \div Word)) % Word, lo |-> (n.lo + k) % Word]

\* n % d, for d below 2^15
ModU32(n, d) == (((n.hi % d) * (Word % d)) + (n.lo % d)) % d

CpuFields == {"NumCpu", "NumGoroutine", "NumCgoCall"}

MemFields == {"Alloc", "TotalAlloc", "Sys", "Lookups", "Mallocs", "Frees",
              "HeapAlloc", "HeapSys", "HeapIdle", "HeapInuse", "HeapReleased", "HeapObjects",
              "StackInuse", "StackSys", "MSpanInuse", "MSpanSys", "MCacheInuse", "MCacheSys",
              "OtherSys"}

GcFields == {"GCSys", "NextGC", "LastGC", "PauseTotalNs", "PauseNs", "NumGC", "GCCPUFraction"}

TagFields == {"Goarch", "Goos", "Version"}

FieldOrder == << "NumCpu", "NumGoroutine", "NumCgoCall",
                 "Alloc", "TotalAlloc", "Sys", "Lookups", "Mallocs", "Frees",
                 "HeapAlloc", "HeapSys", "HeapIdle", "HeapInuse", "HeapReleased", "HeapObjects",
                 "StackInuse", "StackSys", "MSpanInuse", "MSpanSys", "MCacheInuse", "MCacheSys",
                 "OtherSys",
                 "GCSys", "NextGC", "LastGC", "PauseTotalNs", "PauseNs", "NumGC", "GCCPUFraction" >>

\* Fields{}: every number zero (NumGC in words), every string empty.
ZeroFields ==
    [f \in CpuFields \cup MemFields \cup GcFields \cup TagFields |->
        CASE f \in TagFields -> ""
          [] f = "NumGC"     -> U32(0, 0)
          [] OTHER           -> 0]

\* A counter of the runtime at one moment: each counter has its own value,
\* and the value moves with the runtime's clock.
Counter(f, rt) ==
    100 * (CHOOSE i \in 1..Len(FieldOrder) : FieldOrder[i] = f) + rt.clock

\* runtime.NumGoroutine(), runtime.NumCgoCall(), runtime.NumCPU()
ReadCpuStats(rt) == [f \in CpuFields |-> Counter(f, rt)]

\* runtime.ReadMemStats(m): the counters, the uint32 cycle count and the
\* 256-slot ring of pauses (slot i holds the pause named 7000 + i).
ReadMemStats(rt) ==
    [ctr     |-> [f \in (MemFields \cup GcFields) \ {"PauseNs", "NumGC"} |-> Counter(f, rt)],
     NumGC   |-> rt.numGC,
     PauseNs |-> [i \in 0..255 |-> 7000 + i]]

PauseIndexOneTooFar(n) == ModU32(AddU32(n, 256), 256)

\* (m.NumGC+255)%256 in uint32 arithmetic
PauseIndex(n) == ModU32(AddU32(n, 255), 256)

collectCPUStats(fields, s) ==
    [f \in DOMAIN fields |-> IF f \in CpuFields THEN s[f] ELSE fields[f]]

collectMemStatsWithoutOtherSys(fields, m) ==
    [f \in DOMAIN fields |-> IF f \in MemFields \ {"OtherSys"} THEN m.ctr[f] ELSE fields[f]]

collectMemStats(fields, m) ==
    [f \in DOMAIN fields |-> IF f \in MemFields THEN m.ctr[f] ELSE fields[f]]

collectGCStats(fields, m) ==
    [f \in DOMAIN fields |->
        CASE f = "PauseNs"  -> m.PauseNs[PauseIndex(m.NumGC)]
          [] f = "NumGC"    -> m.NumGC
          [] f \in GcFields -> m.ctr[f]
          [] OTHER          -> fields[f]]

\* collectStats up to the end of the CPU category
CollectCpuPart(en, rt) ==
    IF en.cpu THEN collectCPUStats(ZeroFields, ReadCpuStats(rt)) ELSE ZeroFields

MemPartGCWithoutMem(en, fields, rt) ==
    LET m  == ReadMemStats(rt)
        f1 == IF en.mem THEN collectMemStats(fields, m) ELSE fields
    IN  IF en.gc THEN collectGCStats(f1, m) ELSE f1

\* collectStats from the memory category to the end of the categories
CollectMemPart(en, fields, rt) ==
    IF en.mem
    THEN LET m  == ReadMemStats(rt)
             f1 == collectMemStats(fields, m)
         IN  IF en.gc THEN collectGCStats(f1, m) ELSE f1
    ELSE fields

\* fields.Goos, fields.Goarch, fields.Version
SetTags(fields) ==
    [fields EXCEPT !["Goos"] = "linux", !["Goarch"] = "amd64", !["Version"] = "go1.x"]

\* collectStats, the CPU counters read at rtCpu and the memory statistics at rtMem
collectStats(en, rtCpu, rtMem) ==
    SetTags(CollectMemPart(en, CollectCpuPart(en, rtCpu), rtMem))

Tags(f) ==
    ("go.os" :> f["Goos"]) @@ ("go.arch" :> f["Goarch"]) @@ ("go.version" :> f["Version"])

ValuesKey ==
    ("cpu.count" :> "NumCpu") @@ ("cpu.goroutines" :> "NumGoroutine") @@
    ("cpu.cgo_calls" :> "NumCgoCall") @@
    ("mem.alloc" :> "Alloc") @@ ("mem.total" :> "TotalAlloc") @@ ("mem.sys" :> "Sys") @@
    ("mem.lookups" :> "Lookups") @@ ("mem.malloc" :> "Mallocs") @@ ("mem.frees" :> "Frees") @@
    ("mem.heap.alloc" :> "HeapAlloc") @@ ("mem.heap.sys" :> "HeapSys") @@
    ("mem.heap.idle" :> "HeapIdle") @@ ("mem.heap.inuse" :> "HeapInuse") @@
    ("mem.heap.released" :> "HeapReleased") @@ ("mem.heap.objects" :> "HeapObjects") @@
    ("mem.stack.inuse" :> "StackInuse") @@ ("mem.stack.sys" :> "StackSys") @@
    ("mem.stack.mspan_inuse" :> "MSpanInuse") @@ ("mem.stack.mspan_sys" :> "MSpanSys") @@
    ("mem.stack.mcache_inuse" :> "MCacheInuse") @@ ("mem.stack.mcache_sys" :> "MCacheSys") @@
    ("mem.othersys" :> "OtherSys") @@
    ("mem.gc.sys" :> "GCSys") @@ ("mem.gc.next" :> "NextGC") @@ ("mem.gc.last" :> "LastGC") @@
    ("mem.gc.pause_total" :> "PauseTotalNs") @@ ("mem.gc.pause" :> "PauseNs") @@
    ("mem.gc.count" :> "NumGC") @@ ("mem.gc.cpu_fraction" :> "GCCPUFraction")

Values(f) == [k \in DOMAIN ValuesKey |-> f[ValuesKey[k]]]

(***************************************************************************)
(* collector.go: OneOff, and influxdb.Metrics built on it.  A call is two  *)
(* steps, the CPU read and the memory read, so that calls overlap.         *)
(***************************************************************************)
Callers == {"a", "b"}

\* New: every category enabled
EnabledByNew == [cpu |-> TRUE, mem |-> TRUE, gc |-> TRUE]

RuntimeAtStart == [clock |-> 0, numGC |-> U32(0, 0)]

NoRead == [clock |-> 0 - 1, numGC |-> U32(0, 0)]

IdleCaller ==
    [pc |-> "idle", via |-> "none", fields |-> ZeroFields,
     cpuAt |-> NoRead, memAt |-> NoRead, out |-> << >>]

\* The program runs: the counters move and a collection cycle completes.
RuntimeStep ==
    /\ runtime.clock < MaxClock
    /\ runtime' = [clock |-> runtime.clock + 1, numGC |-> AddU32(runtime.numGC, 1)]
    /\ UNCHANGED << enable, callers, measurement, traceVars, config, logger, alive,
                    bootVars, loopVars,
                    flushTickC, runVars, done, fired >>

\* A call enters collectStats: fields := Fields{}, then the CPU category.
Enter(c, via) ==
    /\ callers[c].pc \in {"idle", "done"}
    /\ callers' = [callers EXCEPT ![c] =
                     [pc |-> "collecting", via |-> via,
                      fields |-> CollectCpuPart(enable, runtime),
                      cpuAt |-> runtime, memAt |-> NoRead, out |-> << >>]]
    /\ UNCHANGED << enable, runtime, measurement, traceVars, config, logger, alive,
                    bootVars, loopVars,
                    flushTickC, runVars, done, fired >>

OneOffCall(c) == Enter(c, "OneOff")

OneOffReturnInvokingCallback(c) ==
    /\ callers[c].pc = "collecting" /\ callers[c].via = "OneOff"
    /\ LET f == SetTags(CollectMemPart(enable, callers[c].fields, runtime))
       IN  /\ callers' = [callers EXCEPT ![c] =
                            [@ EXCEPT !.pc = "done", !.fields = ZeroFields,
                                      !.memAt = runtime, !.out = << f >>]]
           /\ invocations' = invocations + 1
    /\ UNCHANGED << enable, runtime, measurement, traceVars, config, logger, alive,
                    bootVars, loopVars,
                    flushTickC, fieldsFunc, runPc, tickerOn, tickC, consumed, latestFields,
                    done, fired, sendPt >>

\* The rest of collectStats, and OneOff returns the record.
OneOffReturn(c) ==
    /\ callers[c].pc = "collecting" /\ callers[c].via = "OneOff"
    /\ LET f == SetTags(CollectMemPart(enable, callers[c].fields, runtime))
       IN  callers' = [callers EXCEPT ![c] =
                         [@ EXCEPT !.pc = "done", !.fields = ZeroFields,
                                   !.memAt = runtime, !.out = << f >>]]
    /\ UNCHANGED << enable, runtime, measurement, traceVars, config, logger, alive,
                    bootVars, loopVars,
                    flushTickC, runVars, done, fired >>

\* A read of the published value calls the function Metrics returned.
MetricsCall(c) == Enter(c, "Metrics")

MetricsReturnSampledOnce(c) ==
    /\ callers[c].pc = "collecting" /\ callers[c].via = "Metrics"
    /\ LET values == collectStats(enable, RuntimeAtStart, RuntimeAtStart)
       IN  callers' = [callers EXCEPT ![c] =
                         [@ EXCEPT !.pc = "done", !.fields = ZeroFields, !.memAt = runtime,
                                   !.out = << [Name   |-> measurement,
                                               Tags   |-> Tags(values),
                                               Values |-> values] >>]]
    /\ UNCHANGED << enable, runtime, measurement, traceVars, config, logger, alive,
                    bootVars, loopVars,
                    flushTickC, runVars, done, fired >>

\* values := c.OneOff(); return &Point{Name: measurement, Tags: values.Tags(), Values: values}
MetricsReturn(c) ==
    /\ callers[c].pc = "collecting" /\ callers[c].via = "Metrics"
    /\ LET values == SetTags(CollectMemPart(enable, callers[c].fields, runtime))
       IN  callers' = [callers EXCEPT ![c] =
                         [@ EXCEPT !.pc = "done", !.fields = ZeroFields, !.memAt = runtime,
                                   !.out = << [Name   |-> measurement,
                                               Tags   |-> Tags(values),
                                               Values |-> values] >>]]
    /\ UNCHANGED << enable, runtime, measurement, traceVars, config, logger, alive,
                    bootVars, loopVars,
                    flushTickC, runVars, done, fired >>

\* Nothing logged, no Write returned, no operation on the client yet
NoTrace ==
    /\ lastLog = [level |-> "none", msg |-> ""]
    /\ writeRes = "none"
    /\ lastOp = [op |-> "none", worker |-> "none"]

\* No call of OneOff or Metrics is under way: the push path does not use them.
SampleIdle ==
    /\ enable = EnabledByNew
    /\ runtime = RuntimeAtStart
    /\ callers = [c \in Callers |-> IdleCaller]
    /\ measurement = "none"

(***************************************************************************)
(* src/unnamed/part_001: the earlier runstats.go.  onNewPoint adds the     *)
(* point to r.points itself, on the Sampler's goroutine; loop ranges over  *)
(* time.Tick and writes r.points.  There is no channel and no lock, so a   *)
(* read of the batch made while AddPoint runs may or may not see its point.*)
(***************************************************************************)

\* What a read of r.points can return: the batch, or, while AddPoint is
\* under way on the other goroutine, the batch with the point being added
BatchesSeen ==
    {points} \cup (IF runPc = "addPoint" THEN {AddPoint(points, invocations)} ELSE {})

\* onNewPoint up to its call of r.points.AddPoint(pt): NewPoint, Println
Part001OnNewPoint ==
    /\ alive /\ runPc = "callback" /\ fieldsFunc = "onNewPoint"
    /\ IF sendPt = "nil"
       THEN alive' = FALSE /\ UNCHANGED << lastLog, runPc >>
       ELSE /\ lastLog' = [level |-> "Println", msg |-> "point"]
            /\ runPc' = "addPoint"
            /\ alive' = alive
    /\ UNCHANGED << sampleVars, writeRes, lastOp, config, logger, bootVars, loopVars,
                    flushTickC, fieldsFunc, done, tickerOn, tickC, fired, consumed,
                    invocations, latestFields, sendPt >>

\* r.points.AddPoint(pt) completes and the callback returns
Part001AddPoint ==
    /\ alive /\ runPc = "addPoint"
    /\ points' = AddPoint(points, invocations)
    /\ appended' = Append(appended, invocations)
    /\ runPc' = "select"
    /\ tickerOn' = TRUE
    /\ sendPt' = "none"
    /\ UNCHANGED << sampleVars, traceVars, config, logger, alive, bootVars, batches, loopPc,
                    inflight, written, tickLog, flushTickC, fieldsFunc, done, tickC, fired,
                    consumed, invocations, latestFields >>

\* The batch is never emptied, so the points sent grow without end: the loop's
\* ticks are followed until MaxWritten points have been sent.
MaxWritten == 4

\* for range time.Tick(interval): if len(r.points.Points()) > 0, the call of
\* r.client.Write(r.points)
Part001Tick ==
    /\ alive /\ LoopAtSelect
    /\ flushTickC = 1
    /\ Len(written) < MaxWritten
    /\ flushTickC' = 0
    /\ \E seen \in BatchesSeen :
         IF Len(seen.pts) > 0
         THEN /\ loopPc' = "write"
              /\ inflight' = seen
              /\ lastOp' = [op |-> "write", worker |-> "loop"]
         ELSE UNCHANGED << loopPc, inflight, lastOp >>
    /\ UNCHANGED << sampleVars, lastLog, writeRes, config, logger, alive, bootVars, points,
                    batches, appended, written, tickLog, runVars, done, fired >>

\* Write returns, having sent the points it read from the batch; on an error
\* Fatalln; the loop waits for the next tick with the same batch
Part001WriteReturn ==
    /\ alive /\ loopPc = "write"
    /\ \E writeErr \in BOOLEAN, seen \in BatchesSeen \cup {inflight} :
         /\ writeRes' = IF writeErr THEN "err" ELSE "ok"
         /\ lastLog' = IF writeErr
                       THEN [level |-> "Fatalln", msg |-> "error while writing points to influxdb"]
                       ELSE lastLog
         /\ written' = IF writeErr THEN written ELSE written \o seen.pts
         /\ IF writeErr /\ ~FatallnReturns
            THEN alive' = FALSE /\ UNCHANGED << loopPc, inflight >>
            ELSE alive' = alive /\ loopPc' = "select" /\ inflight' = NilBatch
    /\ UNCHANGED << sampleVars, lastOp, config, logger, bootVars, points, batches, appended,
                    tickLog, flushTickC, runVars, done, fired >>

-----------------------------------------------------------------------------
(* Specifications *)

\* RunCollector(config): the logger is the caller's choice; Done is never set
Init ==
    /\ logger \in {"exit", "return"}
    /\ alive = TRUE
    /\ rcPc = "newClient" /\ rcRet = "none"
    /\ clientRes = "none" /\ pingRes = "none" /\ queryRes = "none"
    /\ points = NilBatch /\ batches = 0
    /\ loopPc = "notStarted" /\ inflight = NilBatch /\ flushTickC = 0
    /\ fieldsFunc = "none" /\ done = "nil" /\ runPc = "notStarted"
    /\ tickerOn = FALSE /\ tickC = 0 /\ fired = 0 /\ consumed = 0 /\ invocations = 0
    /\ sendPt = "none"
    /\ latestFields = << >> /\ appended = << >> /\ written = << >> /\ tickLog = << >>
    /\ SampleIdle
    /\ config = ResolvedConfig(logger)
    /\ NoTrace

Next ==
    \/ NewClient \/ Ping \/ CreateDatabase \/ NewBatch \/ StartLoop \/ StartCollector
    \/ FlushTimerFire \/ Tick \/ WriteReturn \/ Receive
    \/ RunStart \/ TimerFire \/ RunTick

Spec == Init /\ [][Next]_vars

\* Both tickers keep firing, every Write returns, and Go's select takes one
\* of its ready cases at random: a case of the loop's select or of Run's
\* select that is ready again and again is taken in the end.
FairSpec ==
    /\ Spec
    /\ WF_vars(FlushTimerFire)
    /\ WF_vars(TimerFire)
    /\ WF_vars(WriteReturn)
    /\ WF_vars(RunStart)
    /\ SF_vars(RunTick)
    /\ SF_vars(Tick)
    /\ SF_vars(Receive)

\* TestCollector: c := New(pointFunc); c.Done = done (or left nil); go c.Run()
CollectorInit ==
    /\ logger = "exit"
    /\ alive = TRUE
    /\ rcPc = "notCalled" /\ rcRet = "none"
    /\ clientRes = "none" /\ pingRes = "none" /\ queryRes = "none"
    /\ points = NilBatch /\ batches = 0
    /\ loopPc = "notStarted" /\ inflight = NilBatch /\ flushTickC = 0
    /\ fieldsFunc = "pointFunc" /\ done \in {"nil", "open"} /\ runPc = "start"
    /\ tickerOn = FALSE /\ tickC = 0 /\ fired = 0 /\ consumed = 0 /\ invocations = 0
    /\ sendPt = "none"
    /\ latestFields = << >> /\ appended = << >> /\ written = << >> /\ tickLog = << >>
    /\ SampleIdle
    /\ config = NilConfig
    /\ NoTrace

CollectorNext ==
    \/ RunStart \/ CallbackReturn \/ TimerFire \/ RunTick \/ RunDone \/ CloseDone

CollectorSpec == CollectorInit /\ [][CollectorNext]_vars

\* Go's select takes one of its ready cases at random, so a case that stays
\* ready each time Run comes back to the select is taken in the end; the
\* test's callback returns; Run makes its first call.
CollectorFairSpec ==
    /\ CollectorSpec
    /\ WF_vars(RunStart)
    /\ WF_vars(CallbackReturn)
    /\ SF_vars(RunDone)

\* OneOff called by two callers while Run is sampling and the program runs on.
OneOffInit == CollectorInit /\ done = "nil"

OneOffNext ==
    \/ RunStart \/ CallbackReturn \/ TimerFire \/ RunTick
    \/ RuntimeStep
    \/ \E c \in Callers : OneOffCall(c) \/ OneOffReturn(c)

OneOffSpec == OneOffInit /\ [][OneOffNext]_vars

\* The value Metrics returned, read by two readers; its Collector comes from
\* New(nil) and Run is never started on it.
MetricsInit ==
    /\ logger = "exit"
    /\ alive = TRUE
    /\ rcPc = "notCalled" /\ rcRet = "none"
    /\ clientRes = "none" /\ pingRes = "none" /\ queryRes = "none"
    /\ points = NilBatch /\ batches = 0
    /\ loopPc = "notStarted" /\ inflight = NilBatch /\ flushTickC = 0
    /\ fieldsFunc = "noop" /\ done = "nil" /\ runPc = "notStarted"
    /\ tickerOn = FALSE /\ tickC = 0 /\ fired = 0 /\ consumed = 0 /\ invocations = 0
    /\ sendPt = "none"
    /\ latestFields = << >> /\ appended = << >> /\ written = << >> /\ tickLog = << >>
    /\ enable = EnabledByNew
    /\ runtime = RuntimeAtStart
    /\ callers = [c \in Callers |-> IdleCaller]
    /\ measurement \in {"test", "some_metric"}
    /\ config = NilConfig
    /\ NoTrace

MetricsNext ==
    \/ RuntimeStep
    \/ \E c \in Callers : MetricsCall(c) \/ MetricsReturn(c)

MetricsSpec == MetricsInit /\ [][MetricsNext]_vars

\* collectStats as a function of the flags and of the cycle count: every
\* combination of the flags, and cycle counts around 0, 256 and 2^32.
GCSpan == 2

GCSamples ==
    {U32(0, lo) : lo \in (0..GCSpan) \cup ((256 - GCSpan)..(256 + GCSpan))}
        \cup {U32(Word - 1, lo) : lo \in (Word - 1 - GCSpan)..(Word - 1)}

FieldsInit ==
    /\ logger = "exit"
    /\ alive = TRUE
    /\ rcPc = "notCalled" /\ rcRet = "none"
    /\ clientRes = "none" /\ pingRes = "none" /\ queryRes = "none"
    /\ points = NilBatch /\ batches = 0
    /\ loopPc = "notStarted" /\ inflight = NilBatch /\ flushTickC = 0
    /\ fieldsFunc = "noop" /\ done = "nil" /\ runPc = "notStarted"
    /\ tickerOn = FALSE /\ tickC = 0 /\ fired = 0 /\ consumed = 0 /\ invocations = 0
    /\ sendPt = "none"
    /\ latestFields = << >> /\ appended = << >> /\ written = << >> /\ tickLog = << >>
    /\ enable \in [cpu : BOOLEAN, mem : BOOLEAN, gc : BOOLEAN]
    /\ \E n \in GCSamples : runtime = [clock |-> 0, numGC |-> n]
    /\ callers = [c \in Callers |-> IdleCaller]
    /\ measurement = "none"
    /\ config = NilConfig
    /\ NoTrace

FieldsNext ==
    \/ RuntimeStep
    \/ OneOffCall("a") \/ OneOffReturn("a")

FieldsSpec == FieldsInit /\ [][FieldsNext]_vars

\* RunCollector from its first statement, for a choice of configurations: nil,
\* and for each of UseUDP false and true the one with nothing set, the ones
\* with one defaulted field set, the ones with one left unset, and the one
\* with all of them set.
SetConfig ==
    [Addr |-> "influx:9999", Database |-> "mydb", Username |-> "me", Measurement |-> "m",
     BatchInterval |-> 5, CollectionInterval |-> 1, Logger |-> "returning", UseUDP |-> FALSE]

DefaultedFields == {"Addr", "Database", "Measurement", "BatchInterval", "CollectionInterval", "Logger"}

ConfigInputs ==
    {NilConfig} \cup
    {[f \in DOMAIN DefaultConfig |->
         CASE f = "UseUDP"           -> udp
           [] f \in S \cup {"Username"} -> SetConfig[f]
           [] OTHER                  -> DefaultConfig[f]] :
       S \in {T \in SUBSET DefaultedFields :
                 Cardinality(T) \in {0, 1} \/ Cardinality(DefaultedFields \ T) \in {0, 1}},
       udp \in BOOLEAN}

ConfigSpecInit ==
    /\ logger = "unset"
    /\ alive = TRUE
    /\ rcPc = "init" /\ rcRet = "none"
    /\ clientRes = "none" /\ pingRes = "none" /\ queryRes = "none"
    /\ points = NilBatch /\ batches = 0
    /\ loopPc = "notStarted" /\ inflight = NilBatch /\ flushTickC = 0
    /\ fieldsFunc = "none" /\ done = "nil" /\ runPc = "notStarted"
    /\ tickerOn = FALSE /\ tickC = 0 /\ fired = 0 /\ consumed = 0 /\ invocations = 0
    /\ sendPt = "none"
    /\ latestFields = << >> /\ appended = << >> /\ written = << >> /\ tickLog = << >>
    /\ SampleIdle
    /\ config \in ConfigInputs
    /\ NoTrace

ConfigNext == CallConfigInit \/ Next

ConfigSpec == ConfigSpecInit /\ [][ConfigNext]_vars

\* part_001's RunCollector has returned nil: the batch is made, loop and Run
\* are started.
Part001Init ==
    /\ logger \in {"exit", "return"}
    /\ alive = TRUE
    /\ rcPc = "returned" /\ rcRet = "nil"
    /\ clientRes = "ok" /\ pingRes = "ok" /\ queryRes = "ok"
    /\ points = NewBatchPoints(1) /\ batches = 1
    /\ loopPc = "select" /\ inflight = NilBatch /\ flushTickC = 0
    /\ fieldsFunc = "onNewPoint" /\ done = "nil" /\ runPc = "start"
    /\ tickerOn = FALSE /\ tickC = 0 /\ fired = 0 /\ consumed = 0 /\ invocations = 0
    /\ sendPt = "none"
    /\ latestFields = << >> /\ appended = << >> /\ written = << >> /\ tickLog = << >>
    /\ SampleIdle
    /\ config = ResolvedConfig(logger)
    /\ lastLog = [level |-> "none", msg |-> ""]
    /\ writeRes = "none"
    /\ lastOp = [op |-> "query", worker |-> "main"]

Part001Next ==
    \/ RunStart \/ TimerFire \/ RunTick
    \/ Part001OnNewPoint \/ Part001AddPoint
    \/ FlushTimerFire \/ Part001Tick \/ Part001WriteReturn

Part001Spec == Part001Init /\ [][Part001Next]_vars

-----------------------------------------------------------------------------
(* Properties *)

Last(s) == s[Len(s)]

StrictlyIncreasing(s) == \A i, j \in 1..Len(s) : i < j => s[i] < s[j]

\* A step in which a Write call returns to the loop
WriteReturns == loopPc = "write" /\ loopPc' = "select"

C2_CreateDatabaseFailureAbortsStartup ==
    QueryDBErr(queryRes) =>
        /\ loopPc = "notStarted"
        /\ runPc = "notStarted"
        /\ rcRet # "nil"
        /\ (rcPc = "returned" => rcRet = "err")

\* C3: when creating the client or Ping fails, RunCollector has returned an
\* error at once: no query was issued, no batch built, no worker started; the
\* call is not made again; and no Write is in progress unless Ping succeeded.
C3_ConnectOrPingFailureAbortsStartup ==
    /\ []((clientRes = "err" \/ pingRes = "err") =>
            /\ rcPc = "returned" /\ rcRet = "err"
            /\ queryRes = "none"
            /\ batches = 0 /\ IsNil(points)
            /\ loopPc = "notStarted" /\ runPc = "notStarted")
    /\ [](clientRes = "err" => pingRes = "none")
    /\ [](loopPc = "write" => pingRes = "ok")
    /\ [][/\ (clientRes # "none" => clientRes' = clientRes)
          /\ (pingRes # "none" => pingRes' = pingRes)]_vars

\* Ping has failed and RunCollector has returned
C3_Witness == pingRes = "err" /\ rcPc = "returned" /\ rcRet = "err"

\* C4 as stated: the Sampler's callback never waits for the flush worker: while
\* onNewPoint is handing a point off, the hand-off can complete, also when the
\* flush worker is inside a Write call.
C4_SamplerNeverWaitsForFlushWorker ==
    (alive /\ runPc = "callback" /\ fieldsFunc = "onNewPoint") => ENABLED Receive

C6_EmptyBatchNeverWritten ==
    /\ [](loopPc = "write" => (~IsNil(inflight) /\ Len(inflight.pts) > 0))
    /\ [][(loopPc = "select" /\ flushTickC = 1 /\ flushTickC' = 0
             /\ (IsNil(points) \/ Len(points.pts) = 0)) =>
            (loopPc' = "select" /\ points' = points /\ inflight' = inflight
             /\ batches' = batches /\ written' = written)]_vars

\* A tick has found an empty batch in place and done nothing
C6_Witness ==
    /\ Len(tickLog) > 0 /\ Last(tickLog) = "noop"
    /\ ~IsNil(points) /\ points.pts = << >> /\ loopPc = "select"

\* C7: the points are in their batches in the order the Sampler emitted them:
\* the written batches followed by the open batch are the appended points, each
\* once, in increasing order of emission.
C7_PointsKeepEmissionOrder ==
    /\ StrictlyIncreasing(appended)
    /\ appended = written \o points.pts
    /\ \A i \in 1..Len(appended) : appended[i] \in 1..invocations

\* A batch has been written and the open batch holds two points
C7_Witness == Len(written) >= 1 /\ Len(points.pts) >= 2

\* C8: once the loop runs, only the loop changes r.points: during a tick's
\* check, Write and rotation no point is added; the batch changes only when
\* the Write returns or when the loop, at its select, receives a point; the
\* Sampler's own steps leave it alone.
C8_OnlyTheLoopTouchesTheBatch ==
    /\ [](alive /\ loopPc = "write" => inflight = points)
    /\ [][(loopPc # "notStarted" /\ points' # points) =>
            \/ loopPc = "write"
            \/ (loopPc = "select" /\ loopPc' = "select"
                 /\ runPc = "callback" /\ runPc' = "select")]_vars
    /\ [][(runPc' # runPc /\ runPc' = "callback") => points' = points]_vars

\* The loop is inside Write while the Sampler's callback holds a point
C8_Witness ==
    /\ alive /\ loopPc = "write" /\ runPc = "callback"
    /\ Len(inflight.pts) >= 2

C10_RunReturnsOnlyAndEventuallyOnDone ==
    /\ [](runPc = "returned" => done = "closed")
    /\ [](done = "nil" => runPc # "returned")
    /\ [][runPc = "returned" =>
            (runPc' = "returned" /\ invocations' = invocations
             /\ latestFields' = latestFields)]_vars
    /\ [][done = "nil" => done' = "nil"]_vars
    /\ (done = "closed") ~> (runPc = "returned")

\* Run has returned after Done was closed, having consumed a tick
C10_Witness == runPc = "returned" /\ done = "closed" /\ consumed >= 1

\* C11: OneOff may be called by several callers while Run is sampling: the
\* record a call returns is the one collectStats builds from that call's own
\* two reads of the runtime; a call in progress can always take its next step
\* and a new call can always begin; a step of a call changes nothing of the
\* Collector (flags, callback, ticker, done) and invokes no callback; and a
\* step changes at most one caller's record, a step of Run or of the runtime
\* none.
C11_OneOffIndependentOfOtherCallsAndOfRun ==
    /\ [](\A c \in Callers :
            /\ callers[c].pc = "done" =>
                 callers[c].out = << collectStats(enable, callers[c].cpuAt, callers[c].memAt) >>
            /\ callers[c].pc = "collecting" => ENABLED OneOffReturn(c)
            /\ callers[c].pc \in {"idle", "done"} => ENABLED OneOffCall(c))
    /\ [][callers' # callers =>
            /\ UNCHANGED << enable, runVars, done, fired, tickC >>
            /\ Cardinality({c \in Callers : callers'[c] # callers[c]}) <= 1]_vars
    /\ [][(runVars' # runVars \/ runtime' # runtime) => callers' = callers]_vars

\* One caller's call has returned while the other's is still in progress, the
\* counters moved during the first and after the second began, and Run has
\* sampled.
C11_Witness ==
    /\ callers["a"].pc = "done" /\ callers["b"].pc = "collecting"
    /\ callers["a"].cpuAt.clock < callers["a"].memAt.clock
    /\ callers["b"].cpuAt.clock < callers["a"].memAt.clock
    /\ invocations >= 1

\* The record the first caller's finished call returned
Returned == callers["a"].out[1]

Finished == callers["a"].pc = "done"

\* C12: for each of the eight combinations of EnableCPU, EnableMem and
\* EnableGC, Values() of the record has the same complete key set (one key
\* for every numeric field, 29 in all); every field of a category that was
\* not collected is zero and every field of a collected one equals the
\* counter read (the GC category is collected when memory and GC are both
\* enabled).
C12_SameKeysZeroWhenNotCollected ==
    Finished =>
        LET f  == Returned
            at == callers["a"].memAt
        IN  /\ DOMAIN Values(f) = DOMAIN Values(ZeroFields)
            /\ Cardinality(DOMAIN Values(f)) = 29
            /\ {ValuesKey[k] : k \in DOMAIN Values(f)} = CpuFields \cup MemFields \cup GcFields
            /\ \A k \in DOMAIN Values(f) : Values(f)[k] = f[ValuesKey[k]]
            /\ \A x \in CpuFields :
                 f[x] = IF enable.cpu THEN Counter(x, callers["a"].cpuAt) ELSE 0
            /\ \A x \in MemFields :
                 f[x] = IF enable.mem THEN Counter(x, at) ELSE 0
            /\ \A x \in GcFields \ {"NumGC", "PauseNs"} :
                 f[x] = IF enable.mem /\ enable.gc THEN Counter(x, at) ELSE 0
            /\ f["NumGC"] = IF enable.mem /\ enable.gc THEN at.numGC ELSE U32(0, 0)
            /\ f["PauseNs"] = IF enable.mem /\ enable.gc
                              THEN ReadMemStats(at).PauseNs[PauseIndex(at.numGC)] ELSE 0

\* A record collected with CPU disabled and memory and GC enabled, after the
\* counters moved.
C12_Witness ==
    /\ Finished
    /\ ~enable.cpu /\ enable.mem /\ enable.gc
    /\ callers["a"].memAt.clock > 0
    /\ Returned["NumCpu"] = 0 /\ Returned["OtherSys"] > 0 /\ Returned["GCSys"] > 0

GcKeys == {k \in DOMAIN ValuesKey : ValuesKey[k] \in GcFields}

MemKeys == {k \in DOMAIN ValuesKey : ValuesKey[k] \in MemFields}

CpuKeys == {k \in DOMAIN ValuesKey : ValuesKey[k] \in CpuFields}

\* C13: GC statistics are collected only when memory collection is enabled
\* too.  With EnableMem false every mem.gc.* value is zero whatever EnableGC
\* is (and every mem.* value too); with EnableMem true and EnableGC false the
\* mem.* values are the counters and the mem.gc.* values are zero; the cpu.*
\* values depend on EnableCPU alone.
C13_GCOnlyWithMem ==
    Finished =>
        LET v    == Values(Returned)
            zero == Values(ZeroFields)
        IN  /\ ~enable.mem => \A k \in GcKeys \cup MemKeys : v[k] = zero[k]
            /\ (enable.mem /\ ~enable.gc) =>
                 /\ \A k \in GcKeys : v[k] = zero[k]
                 /\ \A k \in MemKeys : v[k] = Counter(ValuesKey[k], callers["a"].memAt)
            /\ \A k \in CpuKeys :
                 v[k] = IF enable.cpu THEN Counter(ValuesKey[k], callers["a"].cpuAt) ELSE 0

\* A record collected with EnableGC true and EnableMem false.
C13_Witness ==
    /\ Finished
    /\ enable.gc /\ ~enable.mem /\ enable.cpu
    /\ Values(Returned)["mem.gc.count"] = U32(0, 0)
    /\ Values(Returned)["cpu.goroutines"] > 0

\* C14: for every uint32 cycle count n, zero and the counts for which n + 255
\* passes 2^32 included, the slot collectGCStats reads is (n + 255) mod 256,
\* which lies in 0..255 and equals (n - 1) mod 256 (n mod 256 is lo mod 256,
\* 2^16 being a multiple of 256); the pause in the record is that slot's.
C14_PauseSlotIsTheLastCompletedCycle ==
    /\ PauseIndex(runtime.numGC) \in 0..255
    /\ PauseIndex(runtime.numGC) = (runtime.numGC.lo - 1) % 256
    /\ (Finished /\ enable.mem /\ enable.gc) =>
          Returned["PauseNs"] =
              ReadMemStats(callers["a"].memAt).PauseNs[(callers["a"].memAt.numGC.lo - 1) % 256]

\* A record collected at cycle count 2^32 - 1, where n + 255 wraps: slot 254.
C14_Witness ==
    /\ Finished /\ enable.mem /\ enable.gc
    /\ callers["a"].memAt.numGC = U32(Word - 1, Word - 1)
    /\ Returned["PauseNs"] = 7000 + 254

\* C15: every read of the value Metrics(name) returned takes a new sample:
\* the read's CPU counters are those of the moment it began and its memory
\* statistics those of the moment it returns, never an earlier read's.  The
\* Point has the name given to Metrics, the go.os, go.arch and go.version of
\* that sample as Tags and that sample as Values; a step of one read leaves
\* the other reader's call and result as they were.
C15_EveryReadSamplesAnew ==
    /\ [](\A c \in Callers : callers[c].pc = "done" =>
            LET read == callers[c].out[1]
            IN  /\ read.Name = measurement
                /\ read.Values = collectStats(enable, callers[c].cpuAt, callers[c].memAt)
                /\ read.Tags = ("go.os" :> read.Values["Goos"])
                                @@ ("go.arch" :> read.Values["Goarch"])
                                @@ ("go.version" :> read.Values["Version"])
                /\ read.Tags["go.os"] # "" /\ read.Tags["go.arch"] # ""
                /\ read.Tags["go.version"] # "")
    /\ [][\A c \in Callers :
            /\ (callers[c].pc # "collecting" /\ callers'[c].pc = "collecting") =>
                  callers'[c].cpuAt = runtime /\ callers'[c].out = << >>
            /\ (callers[c].pc = "collecting" /\ callers'[c].pc = "done") =>
                  callers'[c].cpuAt = callers[c].cpuAt /\ callers'[c].memAt = runtime]_vars
    /\ [][Cardinality({c \in Callers : callers'[c] # callers[c]}) <= 1]_vars

\* Two reads that began together and returned at different moments: both
\* Points carry the name, and their Values differ.
C15_Witness ==
    /\ callers["a"].pc = "done" /\ callers["b"].pc = "done"
    /\ measurement = "test"
    /\ callers["a"].out[1].Name = "test" /\ callers["b"].out[1].Name = "test"
    /\ callers["a"].cpuAt = callers["b"].cpuAt
    /\ callers["a"].memAt.clock < callers["b"].memAt.clock
    /\ callers["a"].out[1].Values # callers["b"].out[1].Values

\* The configuration init works on: DefaultConfig when the argument is nil
Given == IF config = NilConfig THEN DefaultConfig ELSE config

WriteFails ==
    /\ alive /\ loopPc = "write"
    /\ loopPc' = "select" \/ ~alive'
    /\ writeRes' = "err"

\* C17: every failure of Write in the loop is reported by Fatalln, with the
\* wrapped error.  With the default logger the process ends there: nothing
\* is done on the client and no batch changes afterwards.  With a logger
\* whose Fatalln returns the loop is back at its select with the batch it
\* had, and takes a pending tick or a point offered by onNewPoint.
C17_WriteFailureGoesToFatalln ==
    /\ [][WriteFails =>
            /\ lastLog' = [level |-> "Fatalln", msg |-> "could not write points to InfluxDB"]
            /\ logger = "exit" => ~alive'
            /\ logger = "return" => (alive' /\ loopPc' = "select" /\ points' = points)]_vars
    /\ [][~alive => UNCHANGED << lastOp, points, inflight, written, appended, loopPc >>]_vars
    /\ [](alive /\ logger = "return" /\ writeRes = "err" /\ loopPc = "select" =>
            /\ flushTickC = 1 => ENABLED Tick
            /\ (runPc = "callback" /\ fieldsFunc = "onNewPoint") => ENABLED Receive)

\* With a logger whose Fatalln returns: the latest Write failed and the loop
\* has since taken a point, which it logged with Println.
C17_Witness ==
    /\ alive /\ logger = "return"
    /\ writeRes = "err" /\ loopPc = "select"
    /\ lastLog.level = "Println"
    /\ Len(points.pts) >= 2

\* C18: no operation on the client runs on the Sampler worker.  The client
\* is created, pinged and queried by RunCollector's caller and written to by
\* the loop only; a step that moves the Sampler (its position, its ticks, its
\* calls of the callback) performs no operation on the client, and its
\* hand-off changes nothing of the loop but the open batch's points.
C18_NoTransportOperationOnTheSampler ==
    /\ [](lastOp.worker # "sampler")
    /\ [](lastOp.op \in {"connect", "ping", "query"} => lastOp.worker = "main")
    /\ [](lastOp.op = "write" => lastOp.worker = "loop")
    /\ [](loopPc = "write" => lastOp = [op |-> "write", worker |-> "loop"])
    /\ [][(runPc' # runPc \/ invocations' # invocations \/ consumed' # consumed) =>
            UNCHANGED << lastOp, writeRes, inflight, written, batches, loopPc >>]_vars

\* The loop is inside Write while the Sampler's callback waits to hand its
\* point over.
C18_Witness ==
    /\ alive /\ loopPc = "write" /\ runPc = "callback"
    /\ lastOp = [op |-> "write", worker |-> "loop"]
    /\ invocations >= 2

\* C19 as stated: from the moment the loop is started, whenever it waits at
\* its select there is exactly one open batch: r.points is not nil and is the
\* latest batch constructed, whatever Write and the construction of the next
\* batch returned.
C19_OneOpenBatchWheneverTheLoopWaits ==
    (alive /\ loopPc = "select") => (~IsNil(points) /\ points.id = batches)

\* C20 as stated: in part_001, where the callback adds its point to the
\* shared batch itself, the callback's AddPoint and the loop's reading of the
\* batch for Write are never under way at the same time.
C20_AddPointNeverDuringWrite ==
    ~(alive /\ runPc = "addPoint" /\ loopPc = "write")

\* The points of a sequence, as a set
Range(q) == {q[i] : i \in 1..Len(q)}

NoDuplicates(q) == \A i, j \in 1..Len(q) : i # j => q[i] # q[j]

\* C21 as stated: in part_001 a batch handed to Write at a flush tick is then
\* discarded and replaced by a new, empty batch: no point is sent to the
\* client in more than one flush, and after a flush the batch holds none of
\* the points received before it.
C21_Part001BatchReplacedAfterFlush ==
    /\ NoDuplicates(written)
    /\ (alive /\ loopPc = "select") => Range(points.pts) \cap Range(written) = {}

\* A step in which the loop receives the point onNewPoint is sending
Receives == runPc = "callback" /\ runPc' = "select"

\* The points the loop received and did not add to a batch
Dropped ==
    {p \in 1..invocations : p \notin Range(appended) /\ ~(p = invocations /\ runPc = "callback")}

\* C22: a point the loop receives while r.points is nil is dropped.  The
\* receive goes through: the process lives, the logger is not called, r.points
\* is still nil, and onNewPoint's send returns.  A dropped point stays
\* dropped: it is in no batch, open, being written or written, afterwards.
C22_PointWithoutBatchIsDropped ==
    /\ [][(Receives /\ IsNil(points)) =>
            /\ alive' /\ lastLog' = lastLog
            /\ points' = points /\ IsNil(points')
            /\ UNCHANGED << inflight, written, appended, batches, loopPc >>
            /\ invocations \in Dropped']_vars
    /\ [][Dropped \subseteq Dropped']_vars
    /\ [](Dropped \cap (Range(points.pts) \cup Range(inflight.pts) \cup Range(written)) = {})

\* With no batch in place since a rotation failed, two points have been
\* received and dropped, and the Sampler is waiting for its ticker.
C22_Witness ==
    /\ alive /\ IsNil(points) /\ loopPc = "select" /\ runPc = "select"
    /\ Cardinality(Dropped) >= 2
    /\ Len(written) > 0

\* C23 as stated: RunCollector wires no stop signal.  The Collector's Done
\* stays nil; once RunCollector has returned, Run is before its ticker, in
\* the callback or at its select, and the loop is at its select or inside
\* Write; unless a Fatalln that exits has ended the process, both workers are
\* still running; whenever the loop is at its select it takes a pending tick
\* and a point that onNewPoint offers, and a step of the loop or of its
\* ticker is possible.
C23_WorkersRunForTheLifeOfTheProcess ==
    /\ done = "nil"
    /\ (rcPc = "returned" /\ rcRet = "nil") =>
            /\ runPc \in {"start", "callback", "select"}
            /\ loopPc \in {"select", "write"}
    /\ logger = "return" => alive
    /\ (alive /\ loopPc = "select") =>
            /\ flushTickC = 1 => ENABLED Tick
            /\ (runPc = "callback" /\ fieldsFunc = "onNewPoint") => ENABLED Receive
            /\ ENABLED (FlushTimerFire \/ Tick \/ Receive)

\* C24 as stated: onNewPoint never offers a nil point on r.pc.  sendPt is
\* the value of pt at the send of runstats.go:224, and runPc = "callback"
\* with the process alive is onNewPoint standing at that send.
C24_NoNilPointIsSent ==
    ~(alive /\ runPc = "callback" /\ fieldsFunc = "onNewPoint" /\ sendPt = "nil")

\* C25: with a batch in place, a point the loop receives goes into the open
\* batch; the points added to a batch are, each exactly once, either in the
\* open batch or among the points of the successful Writes; a point leaves
\* the open batch only into a successful Write, and a written point stays
\* written.
C25_ReceivedPointInExactlyOnePlace ==
    /\ [](Range(appended) = Range(points.pts) \cup Range(written))
    /\ [](Range(points.pts) \cap Range(written) = {})
    /\ [](NoDuplicates(points.pts) /\ NoDuplicates(written))
    /\ [][(Receives /\ ~IsNil(points)) =>
            /\ invocations \in Range(points'.pts)
            /\ invocations \notin Range(appended)
            /\ written' = written]_vars
    /\ [][\A p \in Range(points.pts) :
            \/ p \in Range(points'.pts) /\ p \notin Range(written')
            \/ p \in Range(written') /\ p \notin Range(points'.pts)
                 /\ loopPc = "write" /\ writeRes' = "ok"]_vars
    /\ [][Range(written) \subseteq Range(written')]_vars

\* Under a logger whose Fatalln returns a Write has failed and its batch was
\* kept: an earlier batch is written, and the open batch holds the points of
\* the failed Write.
C25_Witness ==
    /\ alive /\ logger = "return" /\ loopPc = "select"
    /\ writeRes = "err" /\ tickLog = << "err" >>
    /\ Len(written) >= 1 /\ Len(points.pts) >= 2

\* onNewPoint is at its send with the point of sample p
Emitted(p) == runPc = "callback" /\ fieldsFunc = "onNewPoint" /\ invocations = p

\* The loop has taken the point of sample p
Received(p) == invocations >= p /\ ~Emitted(p)

\* The point of sample p is in a batch that was handed to Write
Submitted(p) == p \in Range(inflight.pts) \cup Range(written)

\* C26 as stated: in a process that runs on, every point onNewPoint emits is
\* in the end received by the loop, and is in the end in a batch handed to
\* Write.
C26_EveryPointReachesAWrite ==
    []alive => \A p \in 1..(MaxTicks + 1) :
                 /\ Emitted(p) ~> Received(p)
                 /\ Emitted(p) ~> Submitted(p)

=============================================================================
